---- MODULE Spec2Model ----
(***************************************************************************)
(* A model of aibaton/progress.py: the activity extractor, the item        *)
(* summarizer and the ProgressPrinter rendering state machine, with its    *)
(* two threads (the caller's thread and the spinner thread) and the        *)
(* character streams it writes (stderr and stdout).                        *)
(*                                                                         *)
(* Strings are sequences of symbols.  A symbol is one character or one     *)
(* opaque piece of text (a name, the formatted elapsed time); the control  *)
(* sequence "\r\033[K" is the symbol CLR and the line break is NL.         *)
(***************************************************************************)
EXTENDS Naturals, Sequences, FiniteSets, TLC

\* ---------------------------------------------------------------- bounds
\* the number of on_event / set_status / set_activity calls of one run
MaxCalls == 2
\* the number of spinner iterations that advance the frame
MaxTicks == 2

\* ------------------------------------------------------------ the symbols
NL == "\n"
CLR == "<CR><EL>"
\* "▶", "✓", "✗" and "◷" of the source, in ASCII
ARROW == "|>"
CHECK == "(v)"
CROSS == "(x)"
CLOCK == "(o)"
\* the result of _format_elapsed: the clock is not modelled
ELAPSED == "<elapsed>"

SPINNER_FRAMES == <<"f0", "f1", "f2", "f3", "f4", "f5", "f6", "f7", "f8", "f9">>

Range(s) == {s[i] : i \in 1..Len(s)}

Ellipsis == <<".", ".", ".">>

\* s[:n]
Take(s, n) == SubSeq(s, 1, IF n < Len(s) THEN n ELSE Len(s))

\* the cut alone, without the ellipsis marker
cut_only(s, limit) == Take(s, limit)

\* truncate(s, limit) of _get_item_summary
truncate(s, limit) == IF Len(s) > limit THEN Take(s, limit) \o Ellipsis ELSE s

\* "short" of _extract_activity (line 30)
CMD_LIMIT == 40
short_cmd(cmd) == IF Len(cmd) > CMD_LIMIT THEN Take(cmd, CMD_LIMIT) \o Ellipsis ELSE cmd

\* "short" of _log_event_brief (line 526)
NAME_LIMIT == 30
short_name(name) ==
    IF Len(name) > NAME_LIMIT THEN Take(name, NAME_LIMIT) \o Ellipsis ELSE name

\* "detail" of _log_claude_tool_use (lines 452-454)
DETAIL_LIMIT == 45
tool_detail(val) ==
    Take(val, DETAIL_LIMIT) \o (IF Len(val) > DETAIL_LIMIT THEN Ellipsis ELSE <<>>)

\* " ".join(parts), parts a sequence of strings
RECURSIVE Join(_)
Join(parts) ==
    IF parts = <<>> THEN <<>>
    ELSE IF Len(parts) = 1 THEN parts[1]
    ELSE parts[1] \o <<" ">> \o Join(Tail(parts))

\* path.rsplit("/", 1)[-1]
RECURSIVE Basename(_)
Basename(p) ==
    IF p = <<>> THEN <<>>
    ELSE IF p[Len(p)] = "/" THEN <<>>
    ELSE Basename(SubSeq(p, 1, Len(p) - 1)) \o <<p[Len(p)]>>

IsSpace(c) == c \in {" ", NL}

\* len(text.split()): the number of maximal runs of non-whitespace symbols
\* the length of the text taken for its number of words
CountLen(t) == Len(t)

RECURSIVE WordCount(_)
WordCount(t) ==
    IF t = <<>> THEN 0
    ELSE (IF ~IsSpace(t[1]) /\ (Len(t) = 1 \/ IsSpace(t[2])) THEN 1 ELSE 0)
         + WordCount(Tail(t))

\* a test for a line break that never finds one
NoNL(s) == 0

\* the index of the first NL of s, 0 when there is none
RECURSIVE FirstNL(_)
FirstNL(s) ==
    IF s = <<>> THEN 0
    ELSE IF Head(s) = NL THEN 1
    ELSE LET r == FirstNL(Tail(s)) IN IF r = 0 THEN 0 ELSE r + 1

\* text.endswith("\n")
EndsWithNL(t) == t # <<>> /\ t[Len(t)] = NL

\* s.find(pat) + 1: where pat first occurs in s, 0 when it does not
Find(s, pat) ==
    LET at == {i \in 1..(Len(s) + 1 - Len(pat)) : SubSeq(s, i, i + Len(pat) - 1) = pat}
    IN IF at = {} THEN 0 ELSE CHOOSE i \in at : \A j \in at : i <= j

\* s.strip(chars)
RECURSIVE LStrip(_, _)
LStrip(s, chars) ==
    IF s # <<>> /\ Head(s) \in chars THEN LStrip(Tail(s), chars) ELSE s
RECURSIVE RStrip(_, _)
RStrip(s, chars) ==
    IF s # <<>> /\ s[Len(s)] \in chars THEN RStrip(SubSeq(s, 1, Len(s) - 1), chars) ELSE s
Strip(s, chars) == RStrip(LStrip(s, chars), chars)

Spaces == {" ", NL}
\* the characters of the flag "-lc", and the two quotes
LC == <<"-", "l", "c">>
DQ == "\""
SQ == "'"

\* ------------------------------------------------- a stream as a terminal
\* lines: the lines terminated so far; cur: the unterminated current line
EmptyScreen == [lines |-> <<>>, cur |-> <<>>]

RECURSIVE Put(_, _)
Put(s, w) ==
    IF w = <<>> THEN s
    ELSE LET c == Head(w) IN
         Put(IF c = NL THEN [lines |-> Append(s.lines, s.cur), cur |-> <<>>]
             ELSE IF c = CLR THEN [s EXCEPT !.cur = <<>>]
             ELSE [s EXCEPT !.cur = Append(@, c)],
             Tail(w))

\* print(x, file=...)
PrintLn(x) == x \o <<NL>>

\* ------------------------------------------------------ events, payloads
\* A value that may be absent, a mapping, or of another type; every record
\* of one kind carries the same fields.
\* a "command": absent, one string, or a list of strings
NoCommand == [k |-> "absent", parts |-> <<>>]
StrCommand(c) == [k |-> "str", parts |-> <<c>>]
ListCommand(l) == [k |-> "list", parts |-> l]

\* item: its "type", its "name", the "path" of its arguments mapping, its
\* own "path" (an empty string for an absent field) and its "command"
NoItem == [k |-> "absent", type |-> "", name |-> "", arg_path |-> <<>>, path |-> <<>>,
           command |-> NoCommand]
BadItem == [NoItem EXCEPT !.k = "bad"]
Item(t, n, ap) == [NoItem EXCEPT !.k = "map", !.type = t, !.name = n, !.arg_path = ap]
\* an item with a "command"
CommandItem(t, c) == [NoItem EXCEPT !.k = "map", !.type = t, !.command = c]

NoSub == [k |-> "absent", type |-> "", name |-> "", stop |-> ""]
BadSub == [NoSub EXCEPT !.k = "bad"]

NoPath == [k |-> "absent", s |-> <<>>]

\* message: absent, a string (kind "error"), a mapping with a content list
\* (kinds "assistant" and "user"), a mapping whose content is no list, or
\* a value that is neither a string nor a mapping
NoMessage == [k |-> "absent", s |-> <<>>, content |-> <<>>]
StrMessage(m) == [k |-> "str", s |-> m, content |-> <<>>]
MapMessage(c) == [k |-> "map", s |-> <<>>, content |-> c]
MapMessageNoList == [k |-> "mapnolist", s |-> <<>>, content |-> <<>>]
BadMessage == [k |-> "bad", s |-> <<>>, content |-> <<>>]
\* an element of message.content
ContentItem(t, n, d, e) == [map |-> TRUE, type |-> t, name |-> n, detail |-> d, is_error |-> e]
BadContentItem == [map |-> FALSE, type |-> "", name |-> "", detail |-> <<>>, is_error |-> FALSE]

P0 == [map |-> TRUE, type |-> "", name |-> "", item |-> NoItem, text |-> <<>>,
       message |-> NoMessage, error |-> <<>>, content_block |-> NoSub,
       delta |-> NoSub, path |-> NoPath, command |-> NoCommand]
\* a payload that is not a mapping
BadPayload == [P0 EXCEPT !.map = FALSE]

Event(t, p) == [type |-> t, payload |-> p]
NoEvent == Event("", P0)

\* a function's result or the exception it raises
Ret(v) == [ok |-> TRUE, val |-> v]
Raise == [ok |-> FALSE, val |-> <<>>]

\* the argument of a function applied alone: the function, and its payload,
\* item or string argument with its limit
Arg(f, p, i, s, n) == [f |-> f, payload |-> p, item |-> i, s |-> s, limit |-> n]
NoArg == Arg("", P0, NoItem, <<>>, 0)
\* no function applied yet
NoResult == [applied |-> FALSE, ok |-> TRUE, val |-> <<>>]

\* --------------------------------------------------- _extract_activity
Calling(name) == IF name # "" THEN <<"calling ", name, "...">> ELSE <<"calling tool...">>

FileActivity(path, verb) ==
    IF path.k = "bad" THEN Raise
    ELSE IF path.k = "str" /\ path.s # <<>>
         THEN Ret(<<verb, " ">> \o Basename(path.s) \o <<"...">>)
    ELSE Ret(<<verb, " file...">>)

ExecSpawnActivity(command) ==
    IF command.k \in {"badlist", "bad"} THEN Raise
    ELSE LET cmd == IF command.k = "list" THEN Join(Take(command.parts, 3))
                    ELSE IF command.k = "str" THEN command.parts[1]
                    ELSE <<>>
         IN IF cmd # <<>>
            THEN Ret(<<"running: ">> \o short_cmd(cmd))
            ELSE Ret(<<"running command...">>)

NestedItemActivity(item) ==
    IF item.k # "map" THEN <<>>
    ELSE IF item.type = "reasoning" THEN <<"thinking...">>
    ELSE IF item.type \in {"tool_call", "function_call"} THEN Calling(item.name)
    ELSE IF item.type \in {"agent_message", "assistant_message", "message"}
         THEN <<"responding...">>
    ELSE <<>>

LifecycleActivity(etype) ==
    IF etype = "thread.started" THEN <<"started...">>
    ELSE IF etype = "turn.started" THEN <<"processing...">>
    ELSE IF etype = "turn.completed" THEN <<"turn done">>
    ELSE IF etype = "item.started" THEN <<"working...">>
    ELSE IF etype = "item.completed" THEN <<"item done">>
    ELSE <<>>

ClaudeActivity(raw) ==
    LET etype == raw.type IN
    IF etype = "content_block_start"
    THEN (IF raw.content_block.k = "bad" THEN Raise
          ELSE IF raw.content_block.k = "map" /\ raw.content_block.type = "tool_use"
               THEN Ret(Calling(raw.content_block.name))
          ELSE Ret(<<"generating...">>))
    ELSE IF etype = "content_block_delta" THEN Ret(<<"streaming...">>)
    ELSE IF etype = "message_start" THEN Ret(<<"responding...">>)
    ELSE IF etype = "message_delta"
    THEN (IF raw.delta.k = "bad" THEN Raise
          ELSE IF raw.delta.k = "map" /\ raw.delta.stop # ""
               THEN Ret(<<"stopped: ", raw.delta.stop>>)
          ELSE Ret(<<>>))
    ELSE Ret(<<>>)

\* the activity phrase of a payload (the empty string for None), or Raise
extract_activity(raw) ==
    LET etype == raw.type IN
    IF etype \in {"reasoning", "thinking", "thought"} THEN Ret(<<"thinking...">>)
    ELSE IF etype \in {"tool_call", "function_call", "tool_use"} THEN Ret(Calling(raw.name))
    ELSE IF etype = "exec.spawn" THEN ExecSpawnActivity(raw.command)
    ELSE IF etype = "exec.output" THEN Ret(<<"command output...">>)
    ELSE IF etype \in {"file.write", "file.create", "write_file"}
         THEN FileActivity(raw.path, "writing")
    ELSE IF etype \in {"file.read", "read_file"} THEN FileActivity(raw.path, "reading")
    ELSE IF etype \in {"patch.apply", "edit", "apply_patch"}
         THEN FileActivity(raw.path, "editing")
    ELSE IF NestedItemActivity(raw.item) # <<>> THEN Ret(NestedItemActivity(raw.item))
    ELSE IF LifecycleActivity(etype) # <<>> THEN Ret(LifecycleActivity(etype))
    ELSE ClaudeActivity(raw)

\* --------------------------------------------------- _get_item_summary
\* a command as text: the string itself, or the first n elements of the
\* list joined by spaces (lines 313-314, 331-332, 353-354)
CommandText(command, n) ==
    IF command.k = "list" THEN Join(Take(command.parts, n))
    ELSE IF command.k = "str" THEN command.parts[1]
    ELSE <<>>

\* line 335: "-lc" in cmd and '"' in cmd
wrapped(cmd) == Find(cmd, LC) > 0 /\ DQ \in Range(cmd)

\* lines 330-342
shell_summary(item) ==
    LET cmd == CommandText(item.command, 3) IN
    IF cmd # <<>>
    THEN LET rest == Strip(Strip(Strip(SubSeq(cmd, Find(cmd, LC) + 3, Len(cmd)), Spaces),
                                 {DQ}), {SQ})
         IN <<"$ ">> \o truncate(IF wrapped(cmd) THEN rest ELSE cmd, 55)
    ELSE <<item.type>>

\* find_detail, for an item whose only detail fields are command, path, name
\* and arguments.path
find_detail(item) ==
    IF CommandText(item.command, 3) # <<>> THEN truncate(CommandText(item.command, 3), 45)
    ELSE IF item.path # <<>> THEN truncate(item.path, 45)
    ELSE IF item.name # "" THEN truncate(<<item.name>>, 45)
    ELSE IF item.arg_path # <<>> THEN truncate(item.arg_path, 45)
    ELSE <<>>

get_item_summary(item, max_len) ==
    LET item_type == item.type IN
    IF item_type \in {"tool_call", "function_call", "tool_use"}
    THEN LET name == IF item.name # "" THEN item.name ELSE "tool"
             detail == truncate(item.arg_path, 35)
         IN IF detail # <<>>
            THEN truncate(<<name, "(">> \o detail \o <<")">>, max_len)
            ELSE <<name>>
    ELSE IF item_type \in {"reasoning", "thinking"} THEN <<"reasoning">>
    ELSE IF item_type \in {"agent_message", "assistant_message", "message"} THEN <<"message">>
    ELSE IF item_type = "exec"
         THEN (IF CommandText(item.command, 4) # <<>>
               THEN <<"exec: ">> \o truncate(CommandText(item.command, 4), 50)
               ELSE <<"exec">>)
    ELSE IF item_type \in {"file_read", "read_file"}
         THEN (IF Basename(item.path) # <<>> THEN <<"read: ">> \o Basename(item.path)
               ELSE <<"read_file">>)
    ELSE IF item_type \in {"file_write", "write_file", "patch", "apply_patch"}
         THEN (IF Basename(item.path) # <<>> THEN <<"write: ">> \o Basename(item.path)
               ELSE <<"write_file">>)
    ELSE IF item_type \in {"shell", "bash", "command", "command_execution", "local_shell_call"}
         THEN shell_summary(item)
    ELSE IF find_detail(item) # <<>>
         THEN (IF item_type # "" THEN <<item_type, ": ">> \o find_detail(item)
               ELSE find_detail(item))
    ELSE IF item_type # "" THEN <<item_type>>
    ELSE <<"item">>

\* summary of _log_item_started and _log_item_completed (lines 371-372):
\* payload.get("item", {}) summarized when it is a mapping, else "item"
ItemSummary(payload) ==
    IF payload.item.k = "bad" THEN <<"item">>
    ELSE get_item_summary(payload.item, 60)

\* ------------------------------------------------------------- the state
VARIABLES
    \* ProgressPrinter's fields (lines 116-131)
    stream_tokens, label, status, activity, spinner_idx, token_count,
    event_count, running, spinner_thread, lock, is_tty, current_line,
    has_content, recent_activities, item_line_open,
    \* the caller's thread: its stack of frames (the head is the code it is
    \* at), the event on_event was called with, and the content items
    \* _log_claude_tool_use has still to visit
    pc, ev, content,
    \* the spinner thread's position in _spinner_loop
    tpc,
    \* sys.stderr and sys.stdout
    err, out,
    \* what the last step wrote to stderr, and the fields it read or wrote
    wr, acc,
    \* the number of on_event, set_status and set_activity calls made
    calls,
    \* the events of a scripted run, delivered in order (SpecRun)
    script,
    \* the argument and the result of a function applied alone (SpecPure)
    arg, res

vars == <<stream_tokens, label, status, activity, spinner_idx, token_count,
          event_count, running, spinner_thread, lock, is_tty, current_line,
          has_content, recent_activities, item_line_open, pc, ev, content,
          tpc, err, out, wr, acc, calls, script, arg, res>>

\* what no operation of the printer changes after construction
aside == <<script, arg, res, stream_tokens>>

\* a frame of the caller's stack: the code to run, its string argument, its
\* flag argument and its number argument
F(l) == [l |-> l, a |-> <<>>, e |-> FALSE, n |-> 0]
FA(l, a) == [l |-> l, a |-> a, e |-> FALSE, n |-> 0]
FE(l, a, e) == [l |-> l, a |-> a, e |-> e, n |-> 0]
FN(l, a, n) == [l |-> l, a |-> a, e |-> FALSE, n |-> n]

At(l) == Head(pc).l = l

\* the lock kept by the thread that leaves a "with self._lock:" block
still_held == lock

\* the lock as the end of a "with self._lock:" block leaves it
unlock == "free"

\* the frames whose code is a "with self._lock:" block
Locked == {"set_status", "set_activity", "flush_line", "item_started",
           "item_completed", "turn_event", "tool_use_open", "tool_result",
           "d_close"}

\* the accesses of one step: by whom, to which fields, whether that thread
\* held the lock and whether the spinner thread was alive
NoAccess == [who |-> "none", fields |-> {}, held |-> FALSE, conc |-> FALSE]
TickerAlive == tpc \in {"while", "with", "body"}
Access(who, fields) ==
    [who |-> who, fields |-> fields, held |-> (lock = who), conc |-> TickerAlive]

StatusReads == {"item_line_open", "spinner_idx", "activity", "status",
                "token_count", "event_count"}

\* ------------------------------------------------------ the status line
max_width == 80

\* lines 166-167: the line cut to fit max_width
fit_width(line) ==
    IF Len(line) > max_width THEN Take(line, max_width - Len(Ellipsis)) \o Ellipsis ELSE line

\* a status line that shows the status before the activity
format_status_first(lab, idx, act, st, tok, evc) ==
    Join(<< <<SPINNER_FRAMES[(idx % Len(SPINNER_FRAMES)) + 1], " ">> \o lab >>
         \o (IF st # <<>> THEN <<st>> ELSE IF act # <<>> THEN <<act>> ELSE <<>>)
         \o << <<"[", ELAPSED, "]">> >>
         \o (IF tok > 0 THEN << <<ToString(tok), " tok">> >> ELSE <<>>)
         \o (IF evc > 0 THEN << <<ToString(evc), " ev">> >> ELSE <<>>))

\* _format_status_line (lines 141-155), given the fields it reads
format_status_line(lab, idx, act, st, tok, evc) ==
    Join(<< <<SPINNER_FRAMES[(idx % Len(SPINNER_FRAMES)) + 1], " ">> \o lab >>
         \o (IF act # <<>> THEN <<act>> ELSE IF st # <<>> THEN <<st>> ELSE <<>>)
         \o << <<"[", ELAPSED, "]">> >>
         \o (IF tok > 0 THEN << <<ToString(tok), " tok">> >> ELSE <<>>)
         \o (IF evc > 0 THEN << <<ToString(evc), " ev">> >> ELSE <<>>))

\* _write_status_line without the test of line 162
write_status_line_unguarded(lab, open, idx, act, st, tok, evc) ==
    IF ~is_tty THEN <<>>
    ELSE LET line == format_status_line(lab, idx, act, st, tok, evc) IN
         <<CLR>> \o fit_width(line)

\* a _write_status_line that writes nothing
write_nothing(lab, open, idx, act, st, tok, evc) == <<>>

\* what _write_status_line writes, given the fields it reads
write_status_line(lab, open, idx, act, st, tok, evc) ==
    IF ~is_tty THEN <<>>
    ELSE IF open THEN <<>>
    ELSE LET line == format_status_line(lab, idx, act, st, tok, evc) IN
         <<CLR>> \o fit_width(line)

\* an open item line left as it is
keep_open_line(open) == <<>>

\* "if self._item_line_open: sys.stderr.write("\n")" of the item, turn and
\* done code (lines 376-378, 412-414, 458-460, 591-593)
close_open_line(open) == IF open THEN <<NL>> ELSE <<>>

\* a loop body that never ticks
tick_never(r) == FALSE

\* the body of the loop run whatever _running is
tick_unchecked(r) == TRUE

\* "if self._running:" under the lock, in _spinner_loop (line 176)
tick_allowed(r) == r

\* ----------------------------------------------------------------- Init
Labels == {<<"build">>}

\* the state after ProgressPrinter() (stream_tokens has its default, True);
\* sys.stderr is a terminal or not
Constructed ==
    /\ stream_tokens = TRUE
    /\ is_tty \in BOOLEAN
    /\ label = <<>>
    /\ status = <<>>
    /\ activity = <<>>
    /\ spinner_idx = 0
    /\ token_count = 0
    /\ event_count = 0
    /\ running = FALSE
    /\ spinner_thread = FALSE
    /\ lock = "free"
    /\ current_line = <<>>
    /\ has_content = FALSE
    /\ recent_activities = <<>>
    /\ item_line_open = FALSE
    /\ pc = <<F("new")>>
    /\ ev = NoEvent
    /\ content = <<>>
    /\ tpc = "none"
    /\ err = EmptyScreen
    /\ out = EmptyScreen
    /\ wr = <<>>
    /\ acc = NoAccess
    /\ calls = 0

Init ==
    /\ Constructed
    /\ script = <<>>
    /\ arg = NoArg
    /\ res = NoResult

\* ---------------------------------------------------------------- start
start ==
    /\ At("new")
    /\ \E l \in Labels :
        /\ label' = l
        /\ wr' = IF is_tty
                 THEN write_status_line(l, FALSE, 0, <<>>, <<"starting...">>, 0, 0)
                 ELSE PrintLn(<<"[agent] ">> \o l)
    /\ status' = <<"starting...">>
    /\ activity' = <<>>
    /\ token_count' = 0
    /\ event_count' = 0
    /\ spinner_idx' = 0
    /\ running' = TRUE
    /\ current_line' = <<>>
    /\ has_content' = FALSE
    /\ recent_activities' = <<>>
    /\ item_line_open' = FALSE
    /\ err' = Put(err, wr')
    /\ spinner_thread' = is_tty
    /\ tpc' = IF is_tty THEN "while" ELSE "none"
    /\ pc' = <<F("idle")>>
    /\ acc' = Access("start", {"status", "activity", "token_count", "event_count",
                               "spinner_idx", "running", "current_line",
                               "has_content", "item_line_open"})
    /\ UNCHANGED <<aside, is_tty, lock, ev, content, out, calls>>

\* ------------------------------------------------------- the spinner thread
\* "while self._running:" (line 174), read without the lock
t_while ==
    /\ tpc = "while"
    /\ ~running \/ spinner_idx < MaxTicks
    /\ tpc' = IF running THEN "with" ELSE "exit"
    /\ wr' = <<>>
    /\ acc' = Access("ticker", {"running"})
    /\ UNCHANGED <<aside, label, status, activity, spinner_idx, token_count,
                   event_count, running, spinner_thread, lock, is_tty, current_line,
                   has_content, recent_activities, item_line_open, pc, ev, content,
                   err, out, calls>>

\* "with self._lock:" (line 175)
t_acquire ==
    /\ tpc = "with"
    /\ lock = "free"
    /\ lock' = "ticker"
    /\ tpc' = "body"
    /\ wr' = <<>>
    /\ acc' = NoAccess
    /\ UNCHANGED <<aside, label, status, activity, spinner_idx, token_count,
                   event_count, running, spinner_thread, is_tty, current_line,
                   has_content, recent_activities, item_line_open, pc, ev, content,
                   err, out, calls>>

\* lines 176-179: the body under the lock, the release and the sleep
t_body ==
    /\ tpc = "body"
    /\ lock = "ticker"
    /\ IF tick_allowed(running)
       THEN /\ spinner_idx' = spinner_idx + 1
            /\ wr' = write_status_line(label, item_line_open, spinner_idx', activity, status,
                                       token_count, event_count)
            /\ acc' = Access("ticker", {"running"} \cup StatusReads)
       ELSE /\ spinner_idx' = spinner_idx
            /\ wr' = <<>>
            /\ acc' = Access("ticker", {"running"})
    /\ err' = Put(err, wr')
    /\ lock' = unlock
    /\ tpc' = "while"
    /\ UNCHANGED <<aside, label, status, activity, token_count,
                   event_count, running, spinner_thread, is_tty, current_line,
                   has_content, recent_activities, item_line_open, pc, ev, content,
                   out, calls>>

\* ------------------------------------------------- the caller's inputs
ToolItem == Item("tool_call", "read_file", <<"/", "a", "/", "main.go">>)

\* events with a mapping payload
GoodEvents ==
    { Event("item.started", [P0 EXCEPT !.item = ToolItem]),
      Event("item.started", [P0 EXCEPT !.item = ToolItem, !.text = <<"ok", NL>>]),
      Event("item.completed", [P0 EXCEPT !.item = Item("tool_call", "read_file", <<>>)]),
      Event("turn.started", [P0 EXCEPT !.type = "turn.started"]),
      Event("turn.completed", P0),
      Event("thread.started", P0),
      Event("assistant", [P0 EXCEPT !.message = MapMessage(
          <<BadContentItem, ContentItem("tool_use", "Bash", <<"ls">>, FALSE)>>)]),
      Event("user", [P0 EXCEPT !.message = MapMessage(
          <<ContentItem("tool_result", "", <<>>, FALSE)>>)]),
      Event("user", [P0 EXCEPT !.message = MapMessage(
          <<ContentItem("tool_result", "", <<>>, TRUE)>>)]),
      Event("user", [P0 EXCEPT !.message = MapMessage(
          <<ContentItem("text", "", <<>>, TRUE), ContentItem("tool_result", "", <<>>, FALSE)>>)]),
      Event("user", [P0 EXCEPT !.message = MapMessage(
          <<ContentItem("text", "", <<>>, TRUE)>>)]),
      Event("error", [P0 EXCEPT !.message = StrMessage(<<"disk full">>)]),
      Event("token", [P0 EXCEPT !.text = <<"hello", " ">>]),
      Event("token", [P0 EXCEPT !.text = <<"world", NL>>]),
      Event("exec.output", [P0 EXCEPT !.type = "exec.output"]),
      Event("tool_call", P0) }

\* events with a payload, or a field of it, of an unexpected type
MalformedEvents ==
    { Event("error", BadPayload),
      Event("tool_call", BadPayload),
      Event("assistant", [P0 EXCEPT !.message = StrMessage(<<"hi">>)]),
      Event("user", [P0 EXCEPT !.message = MapMessageNoList]),
      Event("delta", [P0 EXCEPT !.type = "content_block_start", !.content_block = BadSub]) }

Events == GoodEvents \cup MalformedEvents

Statuses == {<<"waiting">>}
Activities == {<<"busy">>}
DoneStatuses == {"success", "error", "timeout"}
ElapsedMs == {1500}

\* ------------------------------------------------------------- the lock
\* entering a "with self._lock:" block
acquire ==
    /\ Head(pc).l \in Locked
    /\ lock = "free"
    /\ lock' = "main"
    /\ wr' = <<>>
    /\ acc' = NoAccess
    /\ UNCHANGED <<aside, label, status, activity, spinner_idx, token_count,
                   event_count, running, spinner_thread, is_tty, current_line,
                   has_content, recent_activities, item_line_open, pc, ev, content,
                   tpc, err, out, calls>>

\* ------------------------------------------- set_status and set_activity
call_set_status ==
    /\ At("idle")
    /\ calls < MaxCalls
    /\ \E s \in Statuses : pc' = <<FA("set_status", s)>> \o pc
    /\ calls' = calls + 1
    /\ ev' = NoEvent
    /\ wr' = <<>>
    /\ acc' = NoAccess
    /\ UNCHANGED <<aside, label, status, activity, spinner_idx, token_count,
                   event_count, running, spinner_thread, lock, is_tty, current_line,
                   has_content, recent_activities, item_line_open, content,
                   tpc, err, out>>

call_set_activity ==
    /\ At("idle")
    /\ calls < MaxCalls
    /\ \E a \in Activities : pc' = <<FA("set_activity", a)>> \o pc
    /\ calls' = calls + 1
    /\ ev' = NoEvent
    /\ wr' = <<>>
    /\ acc' = NoAccess
    /\ UNCHANGED <<aside, label, status, activity, spinner_idx, token_count,
                   event_count, running, spinner_thread, lock, is_tty, current_line,
                   has_content, recent_activities, item_line_open, content,
                   tpc, err, out>>

\* lines 235-238
set_status ==
    /\ At("set_status")
    /\ lock = "main"
    /\ status' = Head(pc).a
    /\ wr' = IF is_tty /\ running
             THEN write_status_line(label, item_line_open, spinner_idx, activity, status',
                                    token_count, event_count)
             ELSE <<>>
    /\ err' = Put(err, wr')
    /\ acc' = Access("main", {"status", "running"}
                             \cup (IF is_tty /\ running THEN StatusReads ELSE {}))
    /\ lock' = unlock
    /\ pc' = Tail(pc)
    /\ UNCHANGED <<aside, label, activity, spinner_idx, token_count,
                   event_count, running, spinner_thread, is_tty, current_line,
                   has_content, recent_activities, item_line_open, ev, content,
                   tpc, out, calls>>

RECENT_LIMIT == 10

\* a history that drops its newest entry when it is full
drop_newest(recent, a) ==
    IF a # <<>> /\ (recent = <<>> \/ recent[Len(recent)] # a)
    THEN (IF Len(recent) + 1 > RECENT_LIMIT THEN recent ELSE Append(recent, a))
    ELSE recent

\* lines 245-248
remember(recent, a) ==
    IF a # <<>> /\ (recent = <<>> \/ recent[Len(recent)] # a)
    THEN (IF Len(recent) + 1 > RECENT_LIMIT THEN Tail(Append(recent, a))
          ELSE Append(recent, a))
    ELSE recent

\* lines 242-250
set_activity ==
    /\ At("set_activity")
    /\ lock = "main"
    /\ activity' = Head(pc).a
    /\ recent_activities' = remember(recent_activities, Head(pc).a)
    /\ wr' = IF is_tty /\ running
             THEN write_status_line(label, item_line_open, spinner_idx, activity', status,
                                    token_count, event_count)
             ELSE <<>>
    /\ err' = Put(err, wr')
    /\ acc' = Access("main", {"activity", "running"}
                             \cup (IF is_tty /\ running THEN StatusReads ELSE {}))
    /\ lock' = unlock
    /\ pc' = Tail(pc)
    /\ UNCHANGED <<aside, label, status, spinner_idx, token_count,
                   event_count, running, spinner_thread, is_tty, current_line,
                   has_content, item_line_open, ev, content, tpc, out, calls>>

\* ----------------------------------------------------------- _flush_line
\* the text and the line break that ends it (lines 187-189, 196-198)
Line(text) == text \o (IF EndsWithNL(text) THEN <<>> ELSE <<NL>>)

\* lines 183-199
flush_line ==
    /\ At("flush_line")
    /\ lock = "main"
    /\ LET text == Head(pc).a
           is_error == Head(pc).e
       IN IF is_tty
          THEN /\ wr' = <<CLR>> \o Line(text)
                        \o (IF running
                            THEN write_status_line(label, item_line_open, spinner_idx, activity,
                                                   status, token_count, event_count)
                            ELSE <<>>)
               /\ err' = Put(err, wr')
               /\ out' = out
               /\ has_content' = TRUE
               /\ acc' = Access("main", {"has_content", "running"}
                                        \cup (IF running THEN StatusReads ELSE {}))
          ELSE /\ wr' = IF is_error THEN Line(text) ELSE <<>>
               /\ err' = Put(err, wr')
               /\ out' = IF is_error THEN out ELSE Put(out, Line(text))
               /\ has_content' = has_content
               /\ acc' = Access("main", {})
    /\ lock' = unlock
    /\ pc' = Tail(pc)
    /\ UNCHANGED <<aside, label, status, activity, spinner_idx, token_count,
                   event_count, running, spinner_thread, is_tty, current_line,
                   recent_activities, item_line_open, ev, content, tpc, calls>>

\* -------------------------------------------------------------- on_event
\* lines 534-543 for the event e: count the event, extract the activity
OnEvent(e) ==
    /\ At("idle")
    /\ calls' = calls + 1
    /\ ev' = e
    /\ LET activity_ == IF e.payload.map THEN extract_activity(e.payload) ELSE Ret(<<>>)
           rest == <<F("dispatch"), F("tail"), F("final"), F("idle")>>
       IN pc' = IF ~activity_.ok THEN <<F("raised")>>
                ELSE IF activity_.val # <<>>
                     THEN <<FA("set_activity", activity_.val)>> \o rest
                ELSE rest
    /\ event_count' = event_count + 1
    /\ wr' = <<>>
    /\ acc' = Access("main", {"event_count"})
    /\ UNCHANGED <<aside, label, status, activity, spinner_idx, token_count,
                   running, spinner_thread, lock, is_tty, current_line,
                   has_content, recent_activities, item_line_open, content,
                   tpc, err, out>>

\* a call of on_event, with any of the events
on_event == calls < MaxCalls /\ \E e \in Events : OnEvent(e)

\* the local "activity" of on_event (line 539-541), for _log_event_brief
EventActivity(e) == IF e.payload.map THEN extract_activity(e.payload).val ELSE <<>>

\* event kinds that start with "file."
FileKinds == {"file.write", "file.create", "file.read"}

\* a brief log of whatever has an activity, the kind not looked at
brief_unfiltered(etype, payload, activity_) ==
    IF activity_ # <<>> THEN Ret(PrintLn(<<"[", ELAPSED, "] ">> \o activity_))
    ELSE Ret(<<>>)

\* _log_event_brief (lines 503-531): the text it prints, or Raise
log_event_brief(etype, payload, activity_) ==
    IF etype \in {"message", "content_block_delta", "message_delta"} THEN Ret(<<>>)
    ELSE IF etype \in {"item.started", "item.completed", "turn.started",
                       "turn.completed", "assistant", "user"} THEN Ret(<<>>)
    ELSE IF activity_ # <<>> THEN Ret(PrintLn(<<"[", ELAPSED, "] ">> \o activity_))
    ELSE IF etype \in {"exec.spawn", "tool_call", "function_call"}
    THEN (IF ~payload.map \/ payload.command.k \in {"bad", "badlist"} THEN Raise
          ELSE LET name == IF payload.name # "" THEN <<payload.name>>
                           ELSE IF payload.command.k = "str" THEN payload.command.parts[1]
                           ELSE IF payload.command.k = "list"
                                THEN Join(Take(payload.command.parts, 2))
                           ELSE <<>>
                   short == short_name(name)
               IN Ret(PrintLn(<<"[", ELAPSED, "] ", etype, ": ">> \o short)))
    ELSE IF etype \in FileKinds \/ etype \in {"read_file", "write_file", "apply_patch"}
    THEN (IF ~payload.map \/ payload.path.k = "bad" THEN Raise
          ELSE Ret(PrintLn(<<"[", ELAPSED, "] ", etype, ": ">> \o Basename(payload.path.s))))
    ELSE Ret(<<>>)

\* has_result of _log_claude_tool_result (lines 482-485)
HasResult(c) == \E i \in 1..Len(c) : c[i].map /\ c[i].type = "tool_result"

\* an is_error that is never set
NeverError(c) == FALSE

\* is_error of _log_claude_tool_result (lines 491-494)
AnyError(c) == \E i \in 1..Len(c) : c[i].map /\ c[i].is_error

\* lines 547-560: the branch of the event's kind.  The code of a branch that
\* precedes its "with self._lock:" block reads no field but the clock.
dispatch ==
    /\ At("dispatch")
    /\ LET t == ev.type
           p == ev.payload
           rest == Tail(pc)
       IN IF t = "item.started" /\ p.map
          THEN pc' = <<F("item_started")>> \o rest /\ wr' = <<>> /\ content' = content
          ELSE IF t = "item.completed" /\ p.map
          THEN pc' = <<F("item_completed")>> \o rest /\ wr' = <<>> /\ content' = content
          ELSE IF t \in {"turn.started", "turn.completed"}
          THEN pc' = <<F("turn_event")>> \o rest /\ wr' = <<>> /\ content' = content
          ELSE IF t = "assistant" /\ p.map
          THEN /\ wr' = <<>>
               /\ IF p.message.k \in {"str", "bad"}
                  THEN pc' = <<F("raised")>> /\ content' = content
                  ELSE IF p.message.k = "map"
                  THEN pc' = <<F("tool_use")>> \o rest /\ content' = p.message.content
                  ELSE pc' = rest /\ content' = content
          ELSE IF t = "user" /\ p.map
          THEN /\ wr' = <<>>
               /\ content' = content
               /\ IF p.message.k \in {"str", "bad"}
                  THEN pc' = <<F("raised")>>
                  ELSE IF p.message.k = "map" /\ HasResult(p.message.content)
                  THEN pc' = <<F("tool_result")>> \o rest
                  ELSE pc' = rest
          ELSE IF ~is_tty /\ t # ""
          THEN LET r == log_event_brief(t, p, EventActivity(ev)) IN
               /\ content' = content
               /\ wr' = r.val
               /\ pc' = IF r.ok THEN rest ELSE <<F("raised")>>
          ELSE pc' = rest /\ wr' = <<>> /\ content' = content
    /\ err' = Put(err, wr')
    /\ acc' = NoAccess
    /\ UNCHANGED <<aside, label, status, activity, spinner_idx, token_count,
                   event_count, running, spinner_thread, lock, is_tty, current_line,
                   has_content, recent_activities, item_line_open, ev, tpc, out, calls>>

\* "[{elapsed}] ▶ {summary} " (lines 381, 383)
ItemPrefix(summary) == <<"[", ELAPSED, "] ", ARROW, " ">> \o summary \o <<" ">>

\* the clear sequence written whatever the output is
ClearAlways == <<CLR>>

\* what a write starts with on a terminal: "\r\033[K"
Clear == IF is_tty THEN <<CLR>> ELSE <<>>

\* lines 374-386
item_started ==
    /\ At("item_started")
    /\ lock = "main"
    /\ wr' = close_open_line(item_line_open) \o Clear \o ItemPrefix(ItemSummary(ev.payload))
    /\ err' = Put(err, wr')
    /\ item_line_open' = TRUE
    /\ has_content' = TRUE
    /\ acc' = Access("main", {"item_line_open", "has_content"})
    /\ lock' = unlock
    /\ pc' = Tail(pc)
    /\ UNCHANGED <<aside, label, status, activity, spinner_idx, token_count,
                   event_count, running, spinner_thread, is_tty, current_line,
                   recent_activities, ev, content, tpc, out, calls>>

\* "✓ ({elapsed})\n" and "✗ ({elapsed})\n" (lines 397, 499)
Mark(m) == <<m, " (", ELAPSED, ")", NL>>

\* "[{elapsed}] ✓ {summary}\n" (lines 402, 404)
CompletedLine(summary) == <<"[", ELAPSED, "] ", CHECK, " ">> \o summary \o <<NL>>

\* lines 394-405
item_completed ==
    /\ At("item_completed")
    /\ lock = "main"
    /\ wr' = IF item_line_open THEN Mark(CHECK)
             ELSE Clear \o CompletedLine(ItemSummary(ev.payload))
    /\ err' = Put(err, wr')
    /\ item_line_open' = FALSE
    /\ acc' = Access("main", {"item_line_open"})
    /\ lock' = unlock
    /\ pc' = Tail(pc)
    /\ UNCHANGED <<aside, label, status, activity, spinner_idx, token_count,
                   event_count, running, spinner_thread, is_tty, current_line,
                   has_content, recent_activities, ev, content, tpc, out, calls>>

\* "[{elapsed}] {marker}\n" (lines 416-424)
TurnMarker(etype) ==
    <<"[", ELAPSED, "] ",
      IF etype = "turn.started" THEN "---- turn started ----"
      ELSE "---- turn completed ----", NL>>

\* lines 410-426
turn_event ==
    /\ At("turn_event")
    /\ lock = "main"
    /\ wr' = close_open_line(item_line_open) \o Clear \o TurnMarker(ev.type)
    /\ err' = Put(err, wr')
    /\ item_line_open' = FALSE
    /\ has_content' = TRUE
    /\ acc' = Access("main", {"item_line_open", "has_content"})
    /\ lock' = unlock
    /\ pc' = Tail(pc)
    /\ UNCHANGED <<aside, label, status, activity, spinner_idx, token_count,
                   event_count, running, spinner_thread, is_tty, current_line,
                   recent_activities, ev, content, tpc, out, calls>>

\* the content items from the first tool_use mapping on (lines 435-439)
RECURSIVE SkipToToolUse(_)
SkipToToolUse(c) ==
    IF c = <<>> THEN <<>>
    ELSE IF Head(c).map /\ Head(c).type = "tool_use" THEN c
    ELSE SkipToToolUse(Tail(c))

\* the loop of _log_claude_tool_use (line 435): the next tool_use item
tool_use ==
    /\ At("tool_use")
    /\ content' = SkipToToolUse(content)
    /\ pc' = IF content' = <<>> THEN Tail(pc) ELSE <<F("tool_use_open")>> \o pc
    /\ wr' = <<>>
    /\ acc' = NoAccess
    /\ UNCHANGED <<aside, label, status, activity, spinner_idx, token_count,
                   event_count, running, spinner_thread, lock, is_tty, current_line,
                   has_content, recent_activities, item_line_open, ev, tpc, err,
                   out, calls>>

\* lines 441-465: "[{elapsed}] ▶ {name}: {detail}" or "[{elapsed}] ▶ {name}"
ToolUseLine(item) ==
    LET name == IF item.name # "" THEN item.name ELSE "tool"
        detail == tool_detail(item.detail)
    IN IF detail # <<>> THEN <<"[", ELAPSED, "] ", ARROW, " ", name, ": ">> \o detail
       ELSE <<"[", ELAPSED, "] ", ARROW, " ", name>>

\* lines 457-473
tool_use_open ==
    /\ At("tool_use_open")
    /\ lock = "main"
    /\ wr' = close_open_line(item_line_open) \o Clear \o ToolUseLine(Head(content)) \o <<" ">>
    /\ err' = Put(err, wr')
    /\ item_line_open' = TRUE
    /\ has_content' = TRUE
    /\ content' = Tail(content)
    /\ acc' = Access("main", {"item_line_open", "has_content"})
    /\ lock' = unlock
    /\ pc' = Tail(pc)
    /\ UNCHANGED <<aside, label, status, activity, spinner_idx, token_count,
                   event_count, running, spinner_thread, is_tty, current_line,
                   recent_activities, ev, tpc, out, calls>>

\* lines 496-501
tool_result ==
    /\ At("tool_result")
    /\ lock = "main"
    /\ wr' = IF item_line_open
             THEN Mark(IF AnyError(ev.payload.message.content) THEN CROSS ELSE CHECK)
             ELSE <<>>
    /\ err' = Put(err, wr')
    /\ item_line_open' = FALSE
    /\ acc' = Access("main", {"item_line_open"})
    /\ lock' = unlock
    /\ pc' = Tail(pc)
    /\ UNCHANGED <<aside, label, status, activity, spinner_idx, token_count,
                   event_count, running, spinner_thread, is_tty, current_line,
                   has_content, recent_activities, ev, content, tpc, out, calls>>

\* msg of line 563: payload.get("message") or payload.get("error") or str(payload)
ErrorMessage(p) ==
    IF p.message.k = "str" /\ p.message.s # <<>> THEN p.message.s
    ELSE IF p.message.k \in {"map", "mapnolist", "bad"} THEN <<"repr(message)">>
    ELSE IF p.error # <<>> THEN p.error
    ELSE <<"str(payload)">>

\* lines 562-572: the error line, or the streamed text
tail ==
    /\ At("tail")
    /\ LET t == ev.type
           p == ev.payload
           rest == Tail(pc)
       IN pc' = IF t = "error"
                THEN (IF ~p.map THEN <<F("raised")>>
                      ELSE <<FE("flush_line", <<"[error] ">> \o ErrorMessage(p), TRUE),
                             FA("set_status", <<"error">>),
                             FA("set_activity", <<>>)>> \o rest)
                ELSE IF stream_tokens /\ p.map /\ p.text # <<>>
                THEN <<FA("update_streaming", p.text), F("stream_status")>> \o rest
                ELSE rest
    /\ wr' = <<>>
    /\ acc' = NoAccess
    /\ UNCHANGED <<aside, label, status, activity, spinner_idx, token_count,
                   event_count, running, spinner_thread, lock, is_tty, current_line,
                   has_content, recent_activities, item_line_open, ev, content,
                   tpc, err, out, calls>>

\* lines 203-204
update_streaming ==
    /\ At("update_streaming")
    /\ current_line' = current_line \o Head(pc).a
    /\ token_count' = token_count + WordCount(Head(pc).a)
    /\ pc' = <<F("streaming_loop")>> \o Tail(pc)
    /\ wr' = <<>>
    /\ acc' = Access("main", {"current_line", "token_count"})
    /\ UNCHANGED <<aside, label, status, activity, spinner_idx,
                   event_count, running, spinner_thread, lock, is_tty,
                   has_content, recent_activities, item_line_open, ev, content,
                   tpc, err, out, calls>>

\* lines 207-210: one iteration of "while "\n" in self._current_line"
streaming_loop ==
    /\ At("streaming_loop")
    /\ LET i == FirstNL(current_line) IN
       IF i = 0
       THEN pc' = Tail(pc) /\ current_line' = current_line
       ELSE /\ current_line' = SubSeq(current_line, i + 1, Len(current_line))
            /\ pc' = IF i > 1 THEN <<FA("flush_line", SubSeq(current_line, 1, i - 1))>> \o pc
                     ELSE pc
    /\ wr' = <<>>
    /\ acc' = Access("main", {"current_line"})
    /\ UNCHANGED <<aside, label, status, activity, spinner_idx, token_count,
                   event_count, running, spinner_thread, lock, is_tty,
                   has_content, recent_activities, item_line_open, ev, content,
                   tpc, err, out, calls>>

\* lines 571-572
stream_status ==
    /\ At("stream_status")
    /\ pc' = IF activity = <<>> THEN <<FA("set_status", <<"streaming...">>)>> \o Tail(pc)
             ELSE Tail(pc)
    /\ wr' = <<>>
    /\ acc' = Access("main", {"activity"})
    /\ UNCHANGED <<aside, label, status, activity, spinner_idx, token_count,
                   event_count, running, spinner_thread, lock, is_tty, current_line,
                   has_content, recent_activities, item_line_open, ev, content,
                   tpc, err, out, calls>>

\* the status of lines 576-581 for an event kind, empty when there is none
CoarseStatus(etype) ==
    IF etype \in {"thread.started", "turn.started"} THEN <<"processing...">>
    ELSE IF etype = "turn.completed" THEN <<"turn completed">>
    ELSE IF etype = "item.completed" THEN <<"item completed">>
    ELSE <<>>

\* lines 575-581
final ==
    /\ At("final")
    /\ pc' = IF activity = <<>> /\ CoarseStatus(ev.type) # <<>>
             THEN <<FA("set_status", CoarseStatus(ev.type))>> \o Tail(pc)
             ELSE Tail(pc)
    /\ wr' = <<>>
    /\ acc' = Access("main", {"activity"})
    /\ UNCHANGED <<aside, label, status, activity, spinner_idx, token_count,
                   event_count, running, spinner_thread, lock, is_tty, current_line,
                   has_content, recent_activities, item_line_open, ev, content,
                   tpc, err, out, calls>>

\* ------------------------------------------------------------------ done
\* the steps of done after line 584, in the order of the code
done_steps(st, ms) ==
    (IF spinner_thread THEN <<F("join")>> ELSE <<>>)
    \o <<F("d_close"), F("d_flush"), F("d_clear"), FN("d_final", <<st>>, ms), F("finished")>>

\* line 584, for the call done(st, ms)
Done(st, ms) ==
    /\ At("idle")
    /\ running' = FALSE
    /\ pc' = done_steps(st, ms)
    /\ wr' = <<>>
    /\ acc' = Access("main", {"running"})
    /\ UNCHANGED <<aside, label, status, activity, spinner_idx, token_count,
                   event_count, spinner_thread, lock, is_tty, current_line,
                   has_content, recent_activities, item_line_open, ev, content,
                   tpc, err, out, calls>>

\* a call of done, at any time after start
done == \E st \in DoneStatuses, ms \in ElapsedMs : Done(st, ms)

\* lines 585-587: the join returns when the spinner thread has ended or
\* when its timeout of 0.2 s has passed
join ==
    /\ At("join")
    /\ spinner_thread' = FALSE
    /\ pc' = Tail(pc)
    /\ wr' = <<>>
    /\ acc' = NoAccess
    /\ UNCHANGED <<aside, label, status, activity, spinner_idx, token_count,
                   event_count, running, lock, is_tty, current_line,
                   has_content, recent_activities, item_line_open, ev, content,
                   tpc, err, out, calls>>

\* lines 590-593
d_close ==
    /\ At("d_close")
    /\ lock = "main"
    /\ wr' = close_open_line(item_line_open)
    /\ err' = Put(err, wr')
    /\ item_line_open' = FALSE
    /\ acc' = Access("main", {"item_line_open"})
    /\ lock' = unlock
    /\ pc' = Tail(pc)
    /\ UNCHANGED <<aside, label, status, activity, spinner_idx, token_count,
                   event_count, running, spinner_thread, is_tty, current_line,
                   has_content, recent_activities, ev, content, tpc, out, calls>>

\* lines 596-597
d_flush ==
    /\ At("d_flush")
    /\ pc' = IF current_line # <<>>
             THEN <<FA("flush_line", current_line), F("d_reset")>> \o Tail(pc)
             ELSE Tail(pc)
    /\ wr' = <<>>
    /\ acc' = Access("main", {"current_line"})
    /\ UNCHANGED <<aside, label, status, activity, spinner_idx, token_count,
                   event_count, running, spinner_thread, lock, is_tty, current_line,
                   has_content, recent_activities, item_line_open, ev, content,
                   tpc, err, out, calls>>

\* the buffer left as it is
keep_line(line) == line

\* line 598
reset_line(line) == <<>>

d_reset ==
    /\ At("d_reset")
    /\ current_line' = reset_line(current_line)
    /\ pc' = Tail(pc)
    /\ wr' = <<>>
    /\ acc' = Access("main", {"current_line"})
    /\ UNCHANGED <<aside, label, status, activity, spinner_idx, token_count,
                   event_count, running, spinner_thread, lock, is_tty,
                   has_content, recent_activities, item_line_open, ev, content,
                   tpc, err, out, calls>>

\* lines 601-603
d_clear ==
    /\ At("d_clear")
    /\ wr' = Clear
    /\ err' = Put(err, wr')
    /\ pc' = Tail(pc)
    /\ acc' = NoAccess
    /\ UNCHANGED <<aside, label, status, activity, spinner_idx, token_count,
                   event_count, running, spinner_thread, lock, is_tty, current_line,
                   has_content, recent_activities, item_line_open, ev, content,
                   tpc, out, calls>>

\* the icon of success whatever the status
IconSuccess(st) == CHECK

\* line 606
Icon(st) == IF st = "success" THEN CHECK ELSE IF st = "error" THEN CROSS ELSE CLOCK

\* f"{elapsed_ms / 1000:.1f}" for a whole number of tenths of a second
Seconds(ms) == <<ToString(ms \div 1000), ".", ToString((ms % 1000) \div 100)>>

\* line 608
FinalMsg(st, ms) == <<Icon(st), " ">> \o label \o <<" ", st, " (">> \o Seconds(ms) \o <<"s)">>

\* line 609
direct_summary(has, tty) == has \/ ~tty

\* lines 606-612
d_final ==
    /\ At("d_final")
    /\ LET msg == FinalMsg(Head(pc).a[1], Head(pc).n) IN
       wr' = IF direct_summary(has_content, is_tty) THEN PrintLn(msg)
             ELSE PrintLn(<<NL>> \o msg)
    /\ err' = Put(err, wr')
    /\ pc' = Tail(pc)
    /\ acc' = Access("main", {"has_content"})
    /\ UNCHANGED <<aside, label, status, activity, spinner_idx, token_count,
                   event_count, running, spinner_thread, lock, is_tty, current_line,
                   has_content, recent_activities, item_line_open, ev, content,
                   tpc, out, calls>>

Next ==
    \/ start
    \/ on_event
    \/ call_set_status
    \/ call_set_activity
    \/ done
    \/ acquire
    \/ set_status
    \/ set_activity
    \/ flush_line
    \/ dispatch
    \/ item_started
    \/ item_completed
    \/ turn_event
    \/ tool_use
    \/ tool_use_open
    \/ tool_result
    \/ tail
    \/ update_streaming
    \/ streaming_loop
    \/ stream_status
    \/ final
    \/ join
    \/ d_close
    \/ d_flush
    \/ d_reset
    \/ d_clear
    \/ d_final
    \/ t_while
    \/ t_acquire
    \/ t_body

Spec == Init /\ [][Next]_vars

\* ------------------------------------------------------- a scripted run
\* One run start(label); on_event(e) for each e of the script, in order;
\* done(status, ms): the calls are fixed from the start, the interleaving
\* with the spinner thread is not.

\* the number of on_event calls of a run that streams text
MaxFrags == 2

\* the streamed text fragments
Frags == { <<"hello", " ">>, <<"world", NL>>, <<NL>>, <<"a", NL, NL, "b">> }

TextEvents == { Event("token", [P0 EXCEPT !.text = t]) : t \in Frags }

RECURSIVE SeqsUpTo(_, _)
\* the sequences over S of length 1..n
SeqsUpTo(S, n) ==
    IF n = 0 THEN {}
    ELSE {<<x>> : x \in S}
         \cup {Append(q, x) : q \in SeqsUpTo(S, n - 1), x \in S}

TextScripts == SeqsUpTo(TextEvents, MaxFrags)

\* the item of the scenario: read_file with arguments {"path": "/a/b/main.go"}
ScenarioItem == Item("tool_call", "read_file", <<"/", "a", "/", "b", "/", "main.go">>)

Scenario ==
    << Event("item.started", [P0 EXCEPT !.item = ScenarioItem]),
       Event("item.completed", [P0 EXCEPT !.item = Item("tool_call", "read_file", <<>>)]) >>

\* one event of every kind on_event tells apart, and of kinds it does not
KindEvents ==
    { Event("item.started", [P0 EXCEPT !.item = ToolItem]),
      Event("item.completed", [P0 EXCEPT !.item = ToolItem]),
      Event("turn.started", P0),
      Event("turn.completed", P0),
      Event("assistant", [P0 EXCEPT !.message = MapMessage(
          <<ContentItem("tool_use", "Bash", <<"ls">>, FALSE)>>)]),
      Event("user", [P0 EXCEPT !.message = MapMessage(
          <<ContentItem("tool_result", "", <<>>, FALSE)>>)]),
      Event("message", [P0 EXCEPT !.type = "message_start"]),
      Event("content_block_delta", [P0 EXCEPT !.type = "content_block_delta"]),
      Event("message_delta", [P0 EXCEPT !.type = "message_start"]),
      Event("thread.started", [P0 EXCEPT !.type = "thread.started"]),
      Event("exec.output", [P0 EXCEPT !.type = "exec.output"]),
      Event("tool_call", [P0 EXCEPT !.name = "grep"]),
      Event("file.read", [P0 EXCEPT !.path = [k |-> "str", s |-> <<"/", "a", "/", "x.py">>]]),
      Event("progress", P0),
      Event("", [P0 EXCEPT !.type = "thinking"]) }

\* the number of events of a run that fills the history of activities
MaxActs == 12

\* a tool_call event whose activity is "calling {n}..."
ActEvent(n) == Event("tool_call", [P0 EXCEPT !.type = "tool_call", !.name = ToString(n)])

\* a run of events with an activity each, all different
DistinctActs == [i \in 1..MaxActs |-> ActEvent(i)]

\* a run in which the second event repeats the activity of the first, and
\* the third has no activity
RepeatedActs ==
    [i \in 1..MaxActs |-> IF i <= 2 THEN ActEvent(1)
                          ELSE IF i = 3 THEN Event("progress", P0)
                          ELSE ActEvent(i)]

ActScripts == {DistinctActs, RepeatedActs}

Scripts == TextScripts \cup {Scenario} \cup {<<e>> : e \in KindEvents} \cup ActScripts

InitRun ==
    /\ Constructed
    /\ script \in Scripts
    /\ arg = NoArg
    /\ res = NoResult

\* the next on_event call of the script
deliver == calls < Len(script) /\ OnEvent(script[calls + 1])

\* the call of done that ends the run
finish ==
    /\ calls = Len(script)
    /\ \E st \in DoneStatuses, ms \in ElapsedMs : Done(st, ms)

NextRun ==
    \/ start
    \/ deliver
    \/ finish
    \/ acquire
    \/ set_status
    \/ set_activity
    \/ flush_line
    \/ dispatch
    \/ item_started
    \/ item_completed
    \/ turn_event
    \/ tool_use
    \/ tool_use_open
    \/ tool_result
    \/ tail
    \/ update_streaming
    \/ streaming_loop
    \/ stream_status
    \/ final
    \/ join
    \/ d_close
    \/ d_flush
    \/ d_reset
    \/ d_clear
    \/ d_final
    \/ t_while
    \/ t_acquire
    \/ t_body

SpecRun == InitRun /\ [][NextRun]_vars

\* the steps of the caller's thread inside a call, but for the wait at a
\* "with self._lock:"
CallerStep ==
    \/ set_status \/ set_activity \/ flush_line \/ dispatch \/ item_started
    \/ item_completed \/ turn_event \/ tool_use \/ tool_use_open \/ tool_result
    \/ tail \/ update_streaming \/ streaming_loop \/ stream_status \/ final
    \/ join \/ d_close \/ d_flush \/ d_reset \/ d_clear \/ d_final

\* the spinner thread's steps, but for the wait at its "with self._lock:"
TickerStep == t_while \/ t_body

\* Fair scheduling: a thread that can take a step takes one, and a thread
\* that waits for a lock that is free again and again gets it.
Fairness ==
    /\ WF_vars(CallerStep)
    /\ WF_vars(TickerStep)
    /\ SF_vars(acquire)
    /\ SF_vars(t_acquire)

\* the runs checked under fair scheduling: one event of any kind or one
\* fragment of text, and the scenario
FairScripts == {Scenario} \cup {<<e>> : e \in KindEvents \cup TextEvents}

InitFair ==
    /\ Constructed
    /\ script \in FairScripts
    /\ arg = NoArg
    /\ res = NoResult

SpecFair == InitFair /\ [][NextRun]_vars /\ Fairness

\* ---------------------------------------------- functions applied alone
\* One call of _extract_activity, of _get_item_summary or of a truncation,
\* with an argument chosen at the start.

\* the item types of the shell branch (line 328)
ShellTypes == {"shell", "bash", "command", "command_execution", "local_shell_call"}

ShellCommands ==
    { ListCommand(<< <<"bash">>, LC, <<"echo", " ", "hi">> >>),
      ListCommand(<< <<"bash">>, LC, <<DQ, "echo", " ", "hi", DQ>> >>),
      ListCommand(<< <<"bash">>, LC, <<"echo">>, <<"hi">> >>),
      ListCommand(<< <<"ls">>, <<"-", "l", "a">> >>),
      StrCommand(<<"bash", " ">> \o LC \o <<" ", DQ, "echo", " ", "hi", DQ>>),
      StrCommand(<<"bash", " ">> \o LC \o <<" ", SQ, "echo", " ", "hi", SQ>>),
      StrCommand(<<"bash", " ">> \o LC \o <<" ", "echo", " ", "hi">>),
      StrCommand(<<"bash", " ">> \o LC),
      StrCommand(<<"echo", " ", DQ, "hi", DQ>>),
      NoCommand }

SummaryArgs ==
    {Arg("summary", P0, CommandItem(t, c), <<>>, 60) : t \in ShellTypes, c \in ShellCommands}

\* the longest string given to a truncation
MaxText == 84

RECURSIVE Repeat(_, _)
\* n times the character c
Repeat(c, n) == IF n = 0 THEN <<>> ELSE <<c>> \o Repeat(c, n - 1)

Texts == {Repeat(c, n) : c \in {"x", "."}, n \in 0..MaxText}

\* the limits truncate is called with (lines 271, 274, 281, 315, 341, 352)
TruncateLimits == {35, 45, 50, 55, 60}

\* the truncations of the program: truncate of _get_item_summary, and those
\* of _extract_activity, _log_event_brief, _log_claude_tool_use and
\* _write_status_line, each with its limit
CutArgs ==
    {Arg("truncate", P0, NoItem, t, n) : t \in Texts, n \in TruncateLimits}
    \cup {Arg("short_cmd", P0, NoItem, t, CMD_LIMIT) : t \in Texts}
    \cup {Arg("short_name", P0, NoItem, t, NAME_LIMIT) : t \in Texts}
    \cup {Arg("tool_detail", P0, NoItem, t, DETAIL_LIMIT) : t \in Texts}
    \cup {Arg("fit_width", P0, NoItem, t, max_width) : t \in Texts}

CutSites == {"truncate", "short_cmd", "short_name", "tool_detail", "fit_width"}

\* the kinds _extract_activity tells apart, no kind, and a kind it ignores
ActivityTypes ==
    {"reasoning", "thinking", "thought", "tool_call", "function_call", "tool_use",
     "exec.spawn", "exec.output", "file.write", "file.create", "write_file",
     "file.read", "read_file", "patch.apply", "edit", "apply_patch",
     "thread.started", "turn.started", "turn.completed", "item.started",
     "item.completed", "content_block_start", "content_block_delta",
     "message_start", "message_delta", "", "progress"}

\* the "item" of a payload: absent, no mapping, or a mapping of some type
NestedItems ==
    {NoItem, BadItem, Item("reasoning", "", <<>>), Item("tool_call", "read_file", <<>>),
     Item("function_call", "", <<>>), Item("message", "", <<>>), Item("todo", "", <<>>)}

\* the "command" of a payload: absent, a string of 41 characters, a list of 4
\* strings, a list that holds a number, a number
Commands ==
    {NoCommand, StrCommand(Repeat("x", CMD_LIMIT + 1)),
     ListCommand(<< <<"git">>, <<"log">>, <<"-", "n">>, <<"5">> >>),
     [k |-> "badlist", parts |-> <<>>], [k |-> "bad", parts |-> <<>>]}

\* the "path" of a payload: absent, a string, a number
Paths == {NoPath, [k |-> "str", s |-> <<"/", "a", "/", "x.py">>], [k |-> "bad", s |-> <<>>]}

\* the "content_block" and the "delta" of a payload: absent, no mapping, a
\* mapping
Blocks ==
    {NoSub, BadSub, [NoSub EXCEPT !.k = "map", !.type = "tool_use", !.name = "Bash"],
     [NoSub EXCEPT !.k = "map", !.type = "text"]}
Deltas == {NoSub, BadSub, [NoSub EXCEPT !.k = "map", !.stop = "end_turn"]}

ExtractPayloads ==
    {[P0 EXCEPT !.type = t, !.name = n, !.item = i] :
        t \in ActivityTypes, n \in {"", "grep"}, i \in NestedItems}
    \cup {[P0 EXCEPT !.type = "exec.spawn", !.command = c] : c \in Commands}
    \cup {[P0 EXCEPT !.type = t, !.path = q] :
            t \in {"file.write", "file.read", "patch.apply"}, q \in Paths}
    \cup {[P0 EXCEPT !.type = "content_block_start", !.content_block = b] : b \in Blocks}
    \cup {[P0 EXCEPT !.type = "message_delta", !.delta = d] : d \in Deltas}

ExtractArgs == {Arg("extract", q, NoItem, <<>>, 0) : q \in ExtractPayloads}

PureArgs == SummaryArgs \cup CutArgs \cup ExtractArgs

InitPure ==
    /\ Constructed
    /\ script = <<>>
    /\ arg \in PureArgs
    /\ res = NoResult

\* every variable but res
but_res == <<script, arg, stream_tokens, label, status, activity, spinner_idx,
             token_count, event_count, running, spinner_thread, lock, is_tty,
             current_line, has_content, recent_activities, item_line_open, pc, ev,
             content, tpc, err, out, wr, acc, calls>>

Applied(r) == [applied |-> TRUE, ok |-> r.ok, val |-> r.val]

\* self._get_item_summary(item, max_len)
summarize ==
    /\ arg.f = "summary"
    /\ ~res.applied
    /\ res' = Applied(Ret(get_item_summary(arg.item, arg.limit)))
    /\ UNCHANGED but_res

\* the truncation of the site f applied to s
CutAt(f, s, limit) ==
    IF f = "truncate" THEN truncate(s, limit)
    ELSE IF f = "short_cmd" THEN short_cmd(s)
    ELSE IF f = "short_name" THEN short_name(s)
    ELSE IF f = "tool_detail" THEN tool_detail(s)
    ELSE fit_width(s)

\* one truncation
cut ==
    /\ arg.f \in CutSites
    /\ ~res.applied
    /\ res' = Applied(Ret(CutAt(arg.f, arg.s, arg.limit)))
    /\ UNCHANGED but_res

\* _extract_activity(raw)
extract ==
    /\ arg.f = "extract"
    /\ ~res.applied
    /\ res' = Applied(extract_activity(arg.payload))
    /\ UNCHANGED but_res

NextPure ==
    \/ summarize
    \/ cut
    \/ extract

SpecPure == InitPure /\ [][NextPure]_vars

\* ------------------------------------------------------------ the claims
IsFrame(c) == c \in Range(SPINNER_FRAMES)

\* the current line of stderr holds an item line that no line break has ended
ItemLineOnScreen(s) == ARROW \in Range(s.cur)

\* the current line of stderr holds the status line
StatusOnScreen(s) == s.cur # <<>> /\ IsFrame(s.cur[1])

\* w writes a status line
StatusWritten(w) == \E i \in 1..Len(w) : IsFrame(w[i])

\* w opens an item line or writes a turn marker
OpensLine(w) ==
    \E i \in 1..Len(w) :
        w[i] \in {ARROW, "---- turn started ----", "---- turn completed ----"}

\* the step is the caller's step that leaves the frame l
Leaves(l) == At(l) /\ pc' = Tail(pc)

LastLine(s) == s.lines[Len(s.lines)]

\* C1: at most one item line is open at a time.  A step that opens an item
\* line or writes a turn marker while stderr holds an unterminated item line
\* first writes the line break that ends it; an unterminated item line on
\* stderr is always flagged by item_line_open; and when done writes its
\* summary and after it has returned no item line is open.
C1_OneItemLineOpen ==
    [][ /\ (OpensLine(wr') /\ ItemLineOnScreen(err)) => Head(wr') = NL
        /\ ItemLineOnScreen(err') => item_line_open'
        /\ (Head(pc').l \in {"d_flush", "d_reset", "d_clear", "d_final", "finished"})
               => (~item_line_open' /\ ~ItemLineOnScreen(err'))
      ]_vars

\* an item line was opened while another was still unterminated on stderr
C1_Witness == ARROW \in Range(wr) /\ Head(wr) = NL /\ item_line_open

\* C2: on a terminal, no step writes a status line while item_line_open is
\* true or while stderr holds an unterminated item line, whatever the
\* interleaving of the spinner thread with the caller's calls.
C2_NoRedrawOverItemLine ==
    [][ \A i \in 1..Len(wr') :
            IsFrame(wr'[i]) =>
                /\ ~item_line_open
                /\ ~ItemLineOnScreen(Put(err, Take(wr', i - 2)))
      ]_vars

\* the spinner thread advanced the frame while an item line was open on the
\* terminal, and wrote nothing
C2_Witness ==
    /\ is_tty /\ item_line_open /\ ItemLineOnScreen(err)
    /\ acc.who = "ticker" /\ "spinner_idx" \in acc.fields /\ wr = <<>>

\* C3: once done has written the final summary line, no step writes a status
\* line, also when the join timed out and the spinner thread is still alive.
C3_NoRedrawAfterSummary ==
    [][ At("finished") => ~StatusWritten(wr') ]_vars

\* the summary is written and the spinner thread, still alive, holds the lock
C3_Witness == At("finished") /\ tpc = "body" /\ lock = "ticker"

\* C4: the clear-line sequence is written only when the current line of the
\* terminal is empty or holds the status line.
C4_ClearOnlyStatus ==
    [][ \A i \in 1..Len(wr') :
            wr'[i] = CLR =>
                LET s == Put(err, Take(wr', i - 1))
                IN s.cur = <<>> \/ StatusOnScreen(s)
      ]_vars

\* C5: item.completed with the item line open ends that line, which then
\* reads "[elapsed] ▶ summary ✓ (elapsed)"; with no item line open it writes
\* one line "[elapsed] ✓ summary"; either way exactly one line is ended and
\* item_line_open is false afterwards.
C5_OneCompletedLine ==
    [][ (Leaves("item_completed") /\ lock = "main") =>
            /\ ~item_line_open'
            /\ Len(err'.lines) = Len(err.lines) + 1
            /\ LET line == LastLine(err') IN
               IF item_line_open
               THEN /\ Len(line) > 8
                    /\ Take(line, 4) = <<"[", ELAPSED, "] ", ARROW>>
                    /\ SubSeq(line, Len(line) - 3, Len(line)) = <<CHECK, " (", ELAPSED, ")">>
               ELSE line = <<"[", ELAPSED, "] ", CHECK, " ">> \o ItemSummary(ev.payload)
      ]_vars

\* the fields of Render State
RenderFields == {"status", "activity", "spinner_idx", "token_count", "event_count",
                 "item_line_open", "current_line", "has_content", "running"}

\* C6: while the spinner thread is alive, every step of the spinner thread
\* and of on_event, set_status, set_activity and done that reads or writes a
\* field of Render State is made with the lock held by its thread.
C6_AccessUnderLock ==
    (acc.conc /\ acc.who \in {"main", "ticker"} /\ acc.fields \cap RenderFields # {})
        => acc.held

\* the error line of an "error" event has just been flushed
ErrorFlushed ==
    /\ ev.type = "error"
    /\ At("set_status") /\ Head(pc).a = <<"error">> /\ lock # "main"

\* C7: an "error" event whose payload carries the message m adds to stderr
\* one line whose whole text is "[error] m", and when the call has returned
\* status is "error" and activity is empty.
C7_ErrorLine ==
    /\ ErrorFlushed =>
           /\ err.lines # <<>>
           /\ LastLine(err) = <<"[error] ">> \o ev.payload.message.s
    /\ (At("idle") /\ ev.type = "error") => (status = <<"error">> /\ activity = <<>>)

\* C8: on_event raises no exception.
C8_NeverRaises == ~At("raised")

\* the final summary line of done
IsSummary(line) ==
    \E st \in DoneStatuses, ms \in ElapsedMs : line = FinalMsg(st, ms)

\* C9: done stops the ticker, then closes the open item line, then flushes
\* the buffered partial line, then clears the status line, then writes the
\* summary.  Each step finds the work of the steps before it done; after
\* done has returned, the summary is the last line of stderr, nothing more
\* is written, running and item_line_open are false and the buffer is empty.
C9_DoneOrder ==
    [][ /\ (Head(pc').l \in {"join", "d_close", "d_flush", "d_reset", "d_clear",
                             "d_final", "finished"}) => ~running'
        /\ (Head(pc').l \in {"d_flush", "d_reset", "d_clear", "d_final", "finished"})
               => ~item_line_open'
        /\ Leaves("d_reset")
               => LastLine(IF is_tty THEN err ELSE out) = current_line
        /\ (Head(pc').l \in {"d_clear", "d_final", "finished"}) => current_line' = <<>>
        /\ (Head(pc').l = "d_final") => err'.cur = <<>>
        /\ (Head(pc').l = "finished") =>
               /\ err'.cur = <<>>
               /\ IsSummary(LastLine(err'))
        /\ Leaves("d_final") =>
               Cardinality({i \in 1..Len(err'.lines) : IsSummary(err'.lines[i])}) = 1
        /\ At("finished") => (wr' = <<>> /\ err' = err /\ out' = out)
      ]_vars

\* done has returned after closing an open item line and flushing a buffered
\* partial line on a terminal
C9_Witness ==
    /\ At("finished") /\ is_tty /\ Len(err.lines) = 3
    /\ ARROW \in Range(err.lines[1])
    /\ err.lines[2] = <<"hello", " ">>
    /\ IsSummary(err.lines[3])

\* C10: the summary of done is preceded by an extra line break exactly when
\* the output is a terminal and no line has been ended on it since start.
C10_LeadingBreak ==
    [][ Leaves("d_final") =>
            ((Head(wr') = NL) <=> (is_tty /\ err.lines = <<>>))
      ]_vars

\* ------------------------------------------------------------------ C11
\* the text given to _update_streaming by the calls made so far
RECURSIVE Fed(_)
Fed(k) == IF k = 0 THEN <<>> ELSE Fed(k - 1) \o script[k].payload.text

\* the portions of s that a line break ends, in order, after the portion cur
RECURSIVE Portions(_, _)
Portions(s, cur) ==
    IF s = <<>> THEN <<>>
    ELSE IF Head(s) = NL THEN <<cur>> \o Portions(Tail(s), <<>>)
    ELSE Portions(Tail(s), Append(cur, Head(s)))

\* what follows the last line break of s, after the portion cur
RECURSIVE Unterminated(_, _)
Unterminated(s, cur) ==
    IF s = <<>> THEN cur
    ELSE IF Head(s) = NL THEN Unterminated(Tail(s), <<>>)
    ELSE Unterminated(Tail(s), Append(cur, Head(s)))

NonEmpty(lines) == SelectSeq(lines, LAMBDA l : l # <<>>)

\* the lines _flush_line has written: on stderr on a terminal, else on stdout
ContentLines == (IF is_tty THEN err ELSE out).lines

\* _update_streaming has returned, in a run that only streams text
Streamed == script \in TextScripts /\ Head(pc).l \in {"stream_status", "idle"}

\* C11 as stated: after any sequence of streamed fragments the content lines
\* flushed are, in order, the portions of the concatenation of the fragments
\* that a line break ends, one flush per line break, and the buffer is what
\* follows the last line break.
C11_StreamedLines ==
    Streamed =>
        /\ ContentLines = Portions(Fed(calls), <<>>)
        /\ current_line = Unterminated(Fed(calls), <<>>)

\* C11 amended: the content lines flushed are, in order, the non-empty
\* portions of the concatenation that a line break ends (a line break that
\* ends an empty portion flushes nothing), and the buffer is what follows
\* the last line break, so it holds no line break.
C11_NonEmptyLines ==
    Streamed =>
        /\ ContentLines = NonEmpty(Portions(Fed(calls), <<>>))
        /\ current_line = Unterminated(Fed(calls), <<>>)
        /\ NL \notin Range(current_line)

\* "hello " then "world\n" were streamed: one line "hello world" is flushed
\* and the buffer is empty
C11_Witness ==
    /\ Streamed /\ calls = 2
    /\ Fed(2) = <<"hello", " ", "world", NL>>
    /\ ContentLines = << <<"hello", " ", "world">> >>
    /\ current_line = <<>>

\* ------------------------------------------------------------------ C12
\* the caller's thread is inside a call of on_event or done
InCall == ~(At("new") \/ At("idle") \/ At("finished") \/ At("raised"))

\* the caller's thread waits at a "with self._lock:"
CallerWaits == Head(pc).l \in Locked /\ lock # "main"

\* the thread that holds the lock is at the body of its "with" block, the
\* step that releases the lock: it requests no lock while it holds one
HolderInBody ==
    /\ lock \in {"free", "main", "ticker"}
    /\ lock = "main" => Head(pc).l \in Locked
    /\ lock = "ticker" => tpc = "body"

\* C12: no thread requests the lock while it holds it, and under fair
\* scheduling every request of the lock by a call or by a spinner iteration
\* is granted, the lock is released, and the call returns.
C12_NoDeadlock ==
    /\ []HolderInBody
    /\ CallerWaits ~> (lock = "main")
    /\ (lock = "main") ~> (lock # "main")
    /\ InCall ~> ~InCall
    /\ (tpc = "with") ~> (tpc = "body")
    /\ (tpc = "body") ~> (tpc = "while" /\ lock # "ticker")

\* the caller's thread waits for the lock while the spinner thread holds it
C12_Witness == CallerWaits /\ lock = "ticker" /\ tpc = "body"

\* ------------------------------------------------------------------ C13
\* C13: off a terminal, start writes the one line "[agent] {label}" and
\* starts no spinner thread, and no step of start, on_event, set_status,
\* set_activity or done writes a status line or the clear-line sequence; the
\* spinner index stays 0.
C13_NoRedrawOffTerminal ==
    [][ ~is_tty =>
            /\ At("new") =>
                   /\ wr' = <<"[agent] ">> \o label' \o <<NL>>
                   /\ err' = [lines |-> << <<"[agent] ">> \o label' >>, cur |-> <<>>]
                   /\ ~spinner_thread'
            /\ tpc' = "none"
            /\ CLR \notin Range(wr')
            /\ ~StatusWritten(wr')
            /\ spinner_idx' = 0
      ]_vars

\* a run off a terminal has ended after a call of set_status and events
\* that wrote lines
C13_Witness ==
    /\ ~is_tty /\ At("finished")
    /\ Len(err.lines) > 2
    /\ status = <<"waiting">>

\* ------------------------------------------------------------------ C14
\* the command of a shell item as the summarizer reads it
ShownCommand(item) == CommandText(item.command, 3)

\* what follows the flag "-lc" in cmd, without the spaces and the quotes
\* around it
FlagPayload(cmd) ==
    Strip(Strip(SubSeq(cmd, Find(cmd, LC) + 3, Len(cmd)), Spaces), {DQ, SQ})

\* cmd holds the flag "-lc" followed by a payload
HasFlagPayload(cmd) == Find(cmd, LC) > 0 /\ FlagPayload(cmd) # <<>>

\* C14: the summary of a shell item whose command, a string or the first 3
\* elements of a list joined, holds the flag "-lc" followed by a payload is
\* "$ " and that payload alone, without the shell, the flag and the quotes
\* around it: the list ["bash", "-lc", "echo hi"] gives "$ echo hi".
C14_ShellPayload ==
    (res.applied /\ arg.f = "summary" /\ arg.item.type \in ShellTypes
        /\ HasFlagPayload(ShownCommand(arg.item)))
    => res.val = <<"$ ">> \o FlagPayload(ShownCommand(arg.item))

\* ------------------------------------------------------------------ C15
\* the run is the scenario, off a terminal
InScenario == script = Scenario /\ ~is_tty

\* "[elapsed] ▶ read_file(/a/b/main.go) "
ScenarioItemLine ==
    <<"[", ELAPSED, "] ", ARROW, " ", "read_file", "(", "/", "a", "/", "b", "/", "main.go",
      ")", " ">>

\* the summary line of done(st, 1500) for the label "build", with the icon i
ScenarioSummary(i, st) == <<i, " ", "build", " ", st, " (", "1", ".", "5", "s)">>

\* C15: off a terminal, the run start("build"), item.started and item.completed
\* of read_file with the path /a/b/main.go, done(st, 1500) writes to stderr
\* the line "[agent] build", then the item line "[elapsed] ▶
\* read_file(/a/b/main.go) ", which the completion ends as one line with
\* "✓ (elapsed)", then the summary "icon build st (1.5s)" as the last line;
\* the icon is ✓ exactly for "success", ✗ exactly for "error", ◷ otherwise.
C15_Scenario ==
    /\ (InScenario /\ At("idle") /\ calls = 1) =>
            err = [lines |-> << <<"[agent] ", "build">> >>, cur |-> ScenarioItemLine]
    /\ (InScenario /\ At("idle") /\ calls = 2) =>
            err = [lines |-> << <<"[agent] ", "build">>,
                                ScenarioItemLine \o <<CHECK, " (", ELAPSED, ")">> >>,
                   cur |-> <<>>]
    /\ (InScenario /\ At("finished")) =>
            /\ Len(err.lines) = 3 /\ err.cur = <<>> /\ out = EmptyScreen
            /\ err.lines[1] = <<"[agent] ", "build">>
            /\ err.lines[2] = ScenarioItemLine \o <<CHECK, " (", ELAPSED, ")">>
            /\ \E st \in DoneStatuses, i \in {CHECK, CROSS, CLOCK} :
                   /\ err.lines[3] = ScenarioSummary(i, st)
                   /\ i = CHECK <=> st = "success"
                   /\ i = CROSS <=> st = "error"

\* the scenario has run off a terminal and ended with done("success", 1500)
C15_Witness ==
    /\ InScenario /\ At("finished")
    /\ LastLine(err) = ScenarioSummary(CHECK, "success")

\* ------------------------------------------------------------------ C16
\* a truncation has been applied
Cut == res.applied /\ arg.f \in CutSites

\* C16 as stated: at every truncation of the program a string longer than
\* the limit gives a result of length limit plus the length of the ellipsis
\* marker, a string not longer than the limit is returned unchanged, and
\* truncating the result again at the same limit returns it unchanged.
C16_Truncation ==
    Cut =>
        /\ Len(arg.s) > arg.limit => Len(res.val) = arg.limit + Len(Ellipsis)
        /\ Len(arg.s) <= arg.limit => res.val = arg.s
        /\ CutAt(arg.f, res.val, arg.limit) = res.val

\* C16 amended: the same, but for the status line, where a line longer than
\* 80 is cut to 80 less the length of the marker and the result, marker
\* included, has length exactly 80.
C16_TruncationBySite ==
    Cut =>
        /\ (Len(arg.s) > arg.limit /\ arg.f # "fit_width")
               => /\ Len(res.val) = arg.limit + Len(Ellipsis)
                  /\ res.val = SubSeq(arg.s, 1, arg.limit) \o Ellipsis
        /\ (Len(arg.s) > arg.limit /\ arg.f = "fit_width")
               => /\ Len(res.val) = arg.limit
                  /\ res.val = SubSeq(arg.s, 1, arg.limit - Len(Ellipsis)) \o Ellipsis
        /\ Len(arg.s) <= arg.limit => res.val = arg.s
        /\ CutAt(arg.f, res.val, arg.limit) = res.val

\* a status line of more than 80 characters has been cut to 80
C16_Witness ==
    /\ Cut /\ arg.f = "fit_width"
    /\ Len(arg.s) > max_width /\ Len(res.val) = max_width

\* ------------------------------------------------------------------ C17
\* "calling {name}..." or "calling tool..."
CallingPhrase(name) == IF name # "" THEN <<"calling ", name, "...">> ELSE <<"calling tool...">>

\* "{verb} {basename(path)}..." or "{verb} file..."
PathPhrase(verb, path) ==
    IF path.k = "str" /\ path.s # <<>>
    THEN <<verb, " ">> \o Basename(path.s) \o <<"...">>
    ELSE <<verb, " file...">>

\* "running: {the first 40 characters of the command}" or "running command..."
RunningPhrase(command) ==
    LET cmd == CommandText(command, 3) IN
    IF cmd # <<>>
    THEN <<"running: ">> \o (IF Len(cmd) > 40 THEN SubSeq(cmd, 1, 40) \o Ellipsis ELSE cmd)
    ELSE <<"running command...">>

RecognizedItem(item) ==
    item.k = "map" /\ item.type \in {"reasoning", "tool_call", "function_call",
                                      "agent_message", "assistant_message", "message"}

\* the rules of the extractor in their order: whether the rule matches the
\* payload q, and its phrase
ActivityRules(q) ==
    << [m |-> q.type \in {"reasoning", "thinking", "thought"}, v |-> <<"thinking...">>],
       [m |-> q.type \in {"tool_call", "function_call", "tool_use"},
        v |-> CallingPhrase(q.name)],
       [m |-> q.type = "exec.spawn", v |-> RunningPhrase(q.command)],
       [m |-> q.type = "exec.output", v |-> <<"command output...">>],
       [m |-> q.type \in {"file.write", "file.create", "write_file"},
        v |-> PathPhrase("writing", q.path)],
       [m |-> q.type \in {"file.read", "read_file"}, v |-> PathPhrase("reading", q.path)],
       [m |-> q.type \in {"patch.apply", "edit", "apply_patch"},
        v |-> PathPhrase("editing", q.path)],
       [m |-> RecognizedItem(q.item),
        v |-> IF q.item.type = "reasoning" THEN <<"thinking...">>
              ELSE IF q.item.type \in {"tool_call", "function_call"}
                   THEN CallingPhrase(q.item.name)
              ELSE <<"responding...">>],
       [m |-> q.type \in {"thread.started", "turn.started", "turn.completed",
                          "item.started", "item.completed"},
        v |-> IF q.type = "thread.started" THEN <<"started...">>
              ELSE IF q.type = "turn.started" THEN <<"processing...">>
              ELSE IF q.type = "turn.completed" THEN <<"turn done">>
              ELSE IF q.type = "item.started" THEN <<"working...">>
              ELSE <<"item done">>],
       [m |-> q.type = "content_block_start",
        v |-> IF q.content_block.k = "map" /\ q.content_block.type = "tool_use"
              THEN CallingPhrase(q.content_block.name)
              ELSE <<"generating...">>],
       [m |-> q.type = "content_block_delta", v |-> <<"streaming...">>],
       [m |-> q.type = "message_start", v |-> <<"responding...">>],
       [m |-> q.type = "message_delta" /\ q.delta.k = "map" /\ q.delta.stop # "",
        v |-> <<"stopped: ", q.delta.stop>>] >>

\* the phrase of the first rule that matches, the empty result when none does
FirstMatch(q) ==
    LET rules == ActivityRules(q)
        hits == {i \in 1..Len(rules) : rules[i].m}
    IN IF hits = {} THEN <<>>
       ELSE rules[CHOOSE i \in hits : \A j \in hits : i <= j].v

\* C17: for every payload the extractor returns, and never fails, the phrase
\* of the first rule that matches in the order reasoning, tool call, exec
\* start, exec output, file write, file read, patch/edit, nested item,
\* lifecycle, streaming markers, and the empty result when no rule matches;
\* a field that is absent or of another type gives the generic phrase.
C17_FirstMatch ==
    (res.applied /\ arg.f = "extract") =>
        /\ res.ok
        /\ res.val = FirstMatch(arg.payload)

\* ------------------------------------------------------------------ C18
\* the kinds that never get a brief log
NeverBrief ==
    {"item.started", "item.completed", "turn.started", "turn.completed",
     "assistant", "user", "message", "content_block_delta", "message_delta"}

\* the handler the caller is in
Handler == Head(pc).l

\* the step that picks the branch of the event's kind
Dispatches == At("dispatch") /\ pc' # pc

\* C18: the dispatch by kind takes one branch, the first that applies of
\* item.started (open the item line), item.completed (close it),
\* turn.started/turn.completed (turn marker), assistant (tool-use open),
\* user (tool-result close), otherwise the brief log; the brief log writes
\* only off a terminal and never for the kinds of NeverBrief, so on a terminal
\* the dispatch of any other kind writes nothing.
C18_KindDispatch ==
    [][Dispatches =>
        LET t == ev.type
            m == ev.payload.message
            returns == Handler' = Head(Tail(pc)).l
        IN /\ (t = "item.started" /\ ev.payload.map) => Handler' = "item_started"
           /\ (t = "item.completed" /\ ev.payload.map) => Handler' = "item_completed"
           /\ t \in {"turn.started", "turn.completed"} => Handler' = "turn_event"
           /\ (t = "assistant" /\ ev.payload.map /\ m.k = "map") => Handler' = "tool_use"
           /\ (t = "user" /\ ev.payload.map /\ m.k = "map" /\ HasResult(m.content))
                => Handler' = "tool_result"
           /\ t \in NeverBrief => wr' = <<>>
           /\ is_tty => wr' = <<>>
           /\ wr' # <<>> => ~is_tty /\ returns
           /\ t \notin NeverBrief => returns \/ Handler' = "raised"
           /\ err' = Put(err, wr') /\ out' = out
           /\ item_line_open' = item_line_open /\ has_content' = has_content
    ]_vars

\* off a terminal the dispatch of a thread.started event has written its brief
\* log and nothing else
C18_Witness ==
    /\ ~is_tty
    /\ ev.type = "thread.started"
    /\ At("tail")
    /\ wr = <<"[", ELAPSED, "] ", "started...", NL>>

\* ------------------------------------------------------------------ C19
\* the event in hand is a "user" event whose message holds a content list
\* with a tool_result in it
UserToolResult ==
    /\ ev.type = "user"
    /\ ev.payload.map
    /\ ev.payload.message.k = "map"
    /\ \E i \in DOMAIN ev.payload.message.content :
            ev.payload.message.content[i].type = "tool_result"

\* an element of the content list has a true is_error
ErrorFlagged ==
    \E i \in DOMAIN ev.payload.message.content : ev.payload.message.content[i].is_error

\* the steps that handle the kind of a "user" event: the choice of the branch,
\* and the body of _log_claude_tool_result under the lock
UserKindStep ==
    \/ ev.type = "user" /\ Dispatches
    \/ At("tool_result") /\ pc' # pc

\* C19: a "user" event with a tool_result in its content list closes an open
\* item line with one mark, the elapsed time and a line break, the mark being
\* the cross when an element of the list has a true is_error and the check
\* otherwise, and item_line_open becomes false; with no item line open, or no
\* tool_result in the list, the kind dispatch of the event writes nothing and
\* leaves item_line_open and has_content as they are.
C19_ToolResultClose ==
    [][UserKindStep =>
        LET closes == At("tool_result") /\ item_line_open
            mark == IF ErrorFlagged THEN CROSS ELSE CHECK
        IN /\ At("tool_result") => UserToolResult
           /\ (Dispatches /\ UserToolResult) => Handler' = "tool_result"
           /\ closes => /\ wr' = <<mark, " (", ELAPSED, ")", NL>>
                         /\ err' = Put(err, wr')
                         /\ ~item_line_open'
           /\ ~closes => /\ wr' = <<>>
                          /\ err' = err
                          /\ item_line_open' = item_line_open
           /\ has_content' = has_content
           /\ out' = out
    ]_vars

\* an open item line has just been closed with the cross by a "user" event
\* whose error flag sits on another element than the tool_result
C19_Witness ==
    /\ UserToolResult
    /\ ev.payload.message.content[1].type = "text"
    /\ At("tail")
    /\ wr = <<CROSS, " (", ELAPSED, ")", NL>>
    /\ ~item_line_open
    /\ ARROW \in Range(LastLine(err))

\* ------------------------------------------------------------------ C20
\* the last step called _write_status_line on a terminal while an item line
\* was open, and so wrote nothing
RedrawDropped ==
    /\ is_tty
    /\ item_line_open
    /\ StatusReads \subseteq acc.fields
    /\ wr = <<>>

\* the status line of the fields as they are now
CurrentStatusLine ==
    <<CLR>> \o fit_width(format_status_line(label, spinner_idx, activity, status,
                                            token_count, event_count))

\* the last step has drawn the status line, with the current values
Redrawn == wr = CurrentStatusLine

\* the item line is closed, the run goes on, and the spinner thread of the
\* model, which stops ticking at MaxTicks, has a tick left
ClosedAndRunning ==
    /\ is_tty
    /\ running
    /\ ~item_line_open
    /\ spinner_idx < MaxTicks

\* C20: on a terminal a redraw of the status line that was dropped because an
\* item line was open is made up for: from the moment the item line is closed,
\* unless the run stops or an item line is opened again, the status line is
\* eventually drawn, with the current activity or status and counters.
C20_DroppedRedrawMadeUp ==
    [](RedrawDropped =>
         [](ClosedAndRunning => <>(Redrawn \/ ~running \/ item_line_open)))

\* the run of the scenario on a terminal: the set_activity of the
\* item.completed call found the item line open and dropped its redraw, the
\* item line has been closed, and the spinner thread has now drawn the status
\* line
C20_Witness ==
    /\ script = Scenario
    /\ is_tty
    /\ ev.type = "item.completed"
    /\ ~item_line_open
    /\ running
    /\ acc.who = "ticker"
    /\ Redrawn

\* ------------------------------------------------------------------ C21
\* the status line just written shows the activity when there is one, the
\* status otherwise
ShowsActivityOrStatus ==
    /\ activity # <<>> => Find(wr, activity) > 0
    /\ (activity # <<>> /\ status # activity) => Find(wr, status) = 0
    /\ (activity = <<>> /\ status # <<>>) => Find(wr, status) > 0

\* the caller is inside a call of on_event (a call of set_status or
\* set_activity has no event)
InOnEvent == InCall /\ ev # NoEvent /\ running

\* the coarse status of an event kind
CoarseOf(kind) ==
    CASE kind = "thread.started" -> <<"processing...">>
      [] kind = "turn.started" -> <<"processing...">>
      [] kind = "turn.completed" -> <<"turn completed">>
      [] kind = "item.completed" -> <<"item completed">>
      [] OTHER -> <<>>

\* C21: a status line that is written shows the activity when the activity is
\* not empty and the status otherwise; on_event sets the status only to
\* "error" for the kind "error", or, with the activity empty at that moment,
\* to "streaming..." for a streamed fragment or to the coarse status of the
\* kind; with an activity and another kind than "error" it leaves the status
\* as it is; an "error" event ends with the status "error" and no activity.
C21_ActivityOverStatus ==
    [][/\ StatusWritten(wr') => ShowsActivityOrStatus'
       /\ (InOnEvent /\ status' # status) =>
             \/ ev.type = "error" /\ status' = <<"error">>
             \/ /\ activity = <<>>
                /\ ev.type # "error"
                /\ status' = <<"streaming...">>
                /\ ev.payload.text # <<>>
             \/ /\ activity = <<>>
                /\ ev.type # "error"
                /\ status' = CoarseOf(ev.type)
                /\ status' # <<>>
       /\ (InOnEvent /\ activity # <<>> /\ ev.type # "error") => status' = status
       /\ (InOnEvent /\ ev.type = "error" /\ At("idle")') =>
             status' = <<"error">> /\ activity' = <<>>
    ]_vars

\* on a terminal an item.completed event that carries an activity has been
\* handled: the status is not "item completed", and the spinner thread has
\* drawn a status line that shows the activity
C21_Witness ==
    /\ is_tty
    /\ At("idle")
    /\ ev.type = "item.completed"
    /\ activity # <<>>
    /\ status = <<"starting...">>
    /\ StatusWritten(wr)
    /\ Find(wr, activity) > 0

\* ------------------------------------------------------------------ C22
\* the number of whitespace-separated words of a fragment: the places where a
\* word starts
Words(s) ==
    Cardinality({i \in 1..Len(s) :
                    /\ s[i] \notin {" ", NL}
                    /\ (i = 1 \/ s[i - 1] \in {" ", NL})})

\* the words of the first k fragments of the script, fragment by fragment
RECURSIVE WordsFed(_)
WordsFed(k) == IF k = 0 THEN 0 ELSE WordsFed(k - 1) + Words(script[k].payload.text)

\* C22: between start and done event_count is the number of on_event calls
\* made, one more with each call whatever the event, token_count grows with
\* each streamed fragment by the number of words of that fragment, neither
\* counter goes down, and no other step (a tick of the spinner thread,
\* set_status, set_activity) changes either of them.
C22_Counters ==
    [][/\ event_count' = calls'
       /\ event_count' # event_count =>
             At("idle") /\ ~At("idle")' /\ event_count' = event_count + 1
       /\ token_count' # token_count =>
             /\ At("update_streaming")
             /\ ev.payload.text # <<>>
             /\ token_count' = token_count + Words(ev.payload.text)
       /\ event_count' >= event_count
       /\ token_count' >= token_count
       /\ (script \in TextScripts /\ At("idle")') => token_count' = WordsFed(calls')
    ]_vars

\* on a terminal, after the fragments "a\n\nb" and "hello " and a tick of the
\* spinner thread, two events and three words are counted
C22_Witness ==
    /\ is_tty
    /\ At("idle")
    /\ script = << Event("token", [P0 EXCEPT !.text = <<"a", NL, NL, "b">>]),
                   Event("token", [P0 EXCEPT !.text = <<"hello", " ">>]) >>
    /\ calls = 2
    /\ spinner_idx > 0
    /\ event_count = 2
    /\ token_count = 3

\* ------------------------------------------------------------------ C23
\* the step of set_activity that sets an activity that is not empty
SetsActivity == At("set_activity") /\ pc' # pc /\ Head(pc).a # <<>>

\* the history with a appended at its end, the oldest entry dropped when that
\* makes 11
Appended(recent, a) ==
    LET r == recent \o <<a>> IN
    IF Len(r) = 11 THEN SubSeq(r, 2, 11) ELSE r

\* C23 as stated: the history never holds more than 10 entries, and each
\* activity that is not empty is appended at its end, the oldest entry being
\* dropped, the order of the others kept, when that would make 11.
C23_History ==
    [][/\ Len(recent_activities') <= 10
       /\ SetsActivity => recent_activities' = Appended(recent_activities, Head(pc).a)
    ]_vars

\* C23 amended: the history never holds more than 10 entries; an activity
\* that is not empty and is not the last entry of the history is appended at
\* its end, the oldest entry being dropped, the order of the others kept, when
\* that would make 11; an activity that is the last entry already leaves the
\* history as it is, and so does every other step but start.
C23_HistoryNoRepeat ==
    [][/\ Len(recent_activities') <= 10
       /\ SetsActivity =>
             LET a == Head(pc).a
                 last == recent_activities[Len(recent_activities)]
             IN IF recent_activities # <<>> /\ last = a
                THEN recent_activities' = recent_activities
                ELSE recent_activities' = Appended(recent_activities, a)
       /\ (~SetsActivity /\ ~At("new")) => recent_activities' = recent_activities
    ]_vars

\* after 11 events with different activities the history holds the last 10,
\* in their order
C23_Witness ==
    /\ script = DistinctActs
    /\ calls = 11
    /\ At("idle")
    /\ recent_activities = [i \in 1..10 |-> <<"calling ", ToString(i + 1), "...">>]

\* ------------------------------------------------------------------ C24
\* the spinner thread runs the body of its loop
TickerBody == tpc = "body" /\ tpc' # tpc

\* done has set running to false and has entered its first block under the
\* lock, or is past it
DoneHasLocked ==
    /\ ~running
    /\ ~At("new")
    /\ ~At("join")
    /\ ~(At("d_close") /\ lock # "main")

\* C24: on a terminal each turn of the spinner thread's loop made while
\* running adds exactly 1 to spinner_idx, under the lock, also when an item
\* line is open and the redraw is skipped, and nothing else but start changes
\* spinner_idx; once done has set running to false and has acquired the lock,
\* spinner_idx changes no more and no status line is drawn; and under fair
\* scheduling the loop of the spinner thread ends once running is false.
C24_TickerStops ==
    /\ [][/\ TickerBody =>
               /\ is_tty
               /\ lock = "ticker"
               /\ spinner_idx' = (IF running THEN spinner_idx + 1 ELSE spinner_idx)
          /\ (spinner_idx' # spinner_idx /\ ~At("new")) => TickerBody
          /\ DoneHasLocked => spinner_idx' = spinner_idx /\ ~StatusWritten(wr')
         ]_vars
    /\ (~running /\ TickerAlive) ~> (tpc = "exit")

\* the run of the scenario on a terminal has ended: the spinner thread has
\* made its ticks while the run went on, and has left its loop
C24_Witness ==
    /\ script = Scenario
    /\ is_tty
    /\ At("finished")
    /\ spinner_idx = MaxTicks
    /\ tpc = "exit"

====
